---- MODULE Spec2Model ----
(***************************************************************************)
(* Model of the Janus bridge (src/src/bridges/janus_server.py), the sigil  *)
(* authenticator (src/src/core/auth.py) and the directive registry         *)
(* (src/src/core/protocol.py).                                             *)
(*                                                                         *)
(* A Python str is a sequence of tokens; a token is a tuple of TLA+        *)
(* strings.  The separators ':' and '-' are tokens of their own, so that   *)
(* rsplit(':', 1) and split('-') are computed on the sequence.  The first  *)
(* 16 hex characters of an HMAC-SHA256 digest are one token, the triple of *)
(* a tag, the key and the message (the digest is taken as collision-free). *)
(***************************************************************************)
EXTENDS Integers, Sequences, FiniteSets, TLC

\* ------------------------------------------------------------------ bounds
MaxSessions == 2
\* requests and WebSocket messages the bridge takes in one behaviour
MaxEvents == 3
\* messages a peer sends on one WebSocket session
MaxInbox == 2

\* ----------------------------------------------------------------- strings
Tok(c) == <<c>>
Lit(c) == <<Tok(c)>>
COLON == Lit(":")
DASH == Lit("-")
EmptyStr == <<>>
PyNone == Lit("<None>")

\* Python truthiness of an Optional[str]
Truthy(s) == s # PyNone /\ s # EmptyStr

Contains(s, t) == \E i \in 1..Len(s) : s[i] = t

\* index of the last occurrence of token t in s (0 when absent)
RECURSIVE LastIndexFrom(_, _, _)
LastIndexFrom(s, t, i) ==
    IF i = 0 THEN 0 ELSE IF s[i] = t THEN i ELSE LastIndexFrom(s, t, i - 1)
LastIndex(s, t) == LastIndexFrom(s, t, Len(s))

\* str.rsplit(sep, 1) for a string that contains sep
RSplit1(s, t) ==
    LET i == LastIndex(s, t)
    IN  <<SubSeq(s, 1, i - 1), SubSeq(s, i + 1, Len(s))>>

\* str.split('-'): the fields between the separators
RECURSIVE SplitOn(_, _)
SplitOn(s, t) ==
    IF ~Contains(s, t) THEN <<s>>
    ELSE LET i == CHOOSE k \in 1..Len(s) : s[k] = t /\ \A j \in 1..(k-1) : s[j] # t
         IN  <<SubSeq(s, 1, i - 1)>> \o SplitOn(SubSeq(s, i + 1, Len(s)), t)

\* ------------------------------------------------------------ core/auth.py
AgentPrefix == {"MW", "SY", "FC", "QM", "OM", "RQ"}
AgentRole == {"JGN", "STW", "OPR", "SNT", "WKR"}
AgentTier == {"TIER1", "TIER2", "TIER3"}
SigilType == {"SNTNL", "SRVC", "TEMP"}

\* SigilAuthenticator.__init__: secrets.token_hex(32), fixed for the process
master_secret == Lit("master")

\* hmac.new(key, msg, sha256).hexdigest()[:16]
HmacHex16(key, msg) == <<(<<"hmac", key, msg>>)>>

\* a faulty variant: the signature is taken over the secret as supplied,
\* also when a fresh one is drawn and returned
generate_sigil_SignsSupplied(prefix, role, tier, sigil_type, agent_secret, token, fresh_secret) ==
    LET sigil_base == Lit(prefix) \o DASH \o Lit(role) \o DASH \o Lit(tier)
                      \o DASH \o Lit(sigil_type) \o DASH \o token
        secret == IF Truthy(agent_secret) THEN agent_secret ELSE fresh_secret
        signature == HmacHex16(master_secret, sigil_base \o COLON \o agent_secret)
    IN  <<sigil_base \o COLON \o signature, secret>>

\* generate_sigil; token and fresh_secret are the draws of secrets.token_hex
generate_sigil(prefix, role, tier, sigil_type, agent_secret, token, fresh_secret) ==
    LET sigil_base == Lit(prefix) \o DASH \o Lit(role) \o DASH \o Lit(tier)
                      \o DASH \o Lit(sigil_type) \o DASH \o token
        secret == IF Truthy(agent_secret) THEN agent_secret ELSE fresh_secret
        signature == HmacHex16(master_secret, sigil_base \o COLON \o secret)
    IN  <<sigil_base \o COLON \o signature, secret>>

\* a faulty variant: the signature is recomputed without the agent secret's
\* part being compared, any signed-looking sigil passes
validate_sigil_NoCompare(sigil, agent_secret) ==
    LastIndex(sigil, Tok(":")) # 0

\* validate_sigil returns a bool
validate_sigil(sigil, agent_secret) ==
    IF LastIndex(sigil, Tok(":")) = 0 THEN FALSE
    ELSE LET parts == RSplit1(sigil, Tok(":"))
             sigil_base == parts[1]
             provided_sig == parts[2]
             expected_sig == HmacHex16(master_secret, sigil_base \o COLON \o agent_secret)
         IN  provided_sig = expected_sig

\* parse_sigil: the components, or none (a record with ok = FALSE)
parse_sigil(sigil) ==
    LET i == LastIndex(sigil, Tok(":"))
        sigil_base == IF i = 0 THEN sigil ELSE RSplit1(sigil, Tok(":"))[1]
        signature == IF i = 0 THEN PyNone ELSE RSplit1(sigil, Tok(":"))[2]
        parts == SplitOn(sigil_base, Tok("-"))
    IN  IF Len(parts) < 5
        THEN [ok |-> FALSE, prefix |-> EmptyStr, role |-> EmptyStr, tier |-> EmptyStr,
              type |-> EmptyStr, token |-> EmptyStr, signature |-> PyNone]
        ELSE [ok |-> TRUE, prefix |-> parts[1], role |-> parts[2], tier |-> parts[3],
              type |-> parts[4], token |-> parts[5], signature |-> signature]

\* rotate_sigil: none, or the pair generate_sigil returns; token and
\* fresh_secret are the draws generate_sigil makes
RotateNone == [none |-> TRUE, sigil |-> EmptyStr, secret |-> EmptyStr]
\* Enum(value): the member with that value, ValueError when there is none
HasValue(E, value) == \E e \in E : Lit(e) = value
EnumOf(E, value) == CHOOSE e \in E : Lit(e) = value

\* a faulty variant: the old sigil is parsed but not validated
rotate_sigil_SkipsValidate(old_sigil, agent_secret, token, fresh_secret) ==
    LET parsed == parse_sigil(old_sigil)
    IN  IF ~parsed.ok THEN RotateNone
        ELSE IF ~(/\ HasValue(AgentPrefix, parsed.prefix)
                  /\ HasValue(AgentRole, parsed.role)
                  /\ HasValue(AgentTier, parsed.tier)
                  /\ HasValue(SigilType, parsed.type))
        THEN RotateNone
        ELSE LET g == generate_sigil(EnumOf(AgentPrefix, parsed.prefix),
                                     EnumOf(AgentRole, parsed.role),
                                     EnumOf(AgentTier, parsed.tier),
                                     EnumOf(SigilType, parsed.type),
                                     agent_secret, token, fresh_secret)
             IN  [none |-> FALSE, sigil |-> g[1], secret |-> g[2]]

rotate_sigil(old_sigil, agent_secret, token, fresh_secret) ==
    LET parsed == parse_sigil(old_sigil)
    IN  IF ~parsed.ok THEN RotateNone
        ELSE IF ~validate_sigil(old_sigil, agent_secret) THEN RotateNone
        ELSE IF ~(/\ HasValue(AgentPrefix, parsed.prefix)
                  /\ HasValue(AgentRole, parsed.role)
                  /\ HasValue(AgentTier, parsed.tier)
                  /\ HasValue(SigilType, parsed.type))
        THEN RotateNone  \* ValueError
        ELSE LET g == generate_sigil(EnumOf(AgentPrefix, parsed.prefix),
                                     EnumOf(AgentRole, parsed.role),
                                     EnumOf(AgentTier, parsed.tier),
                                     EnumOf(SigilType, parsed.type),
                                     agent_secret, token, fresh_secret)
             IN  [none |-> FALSE, sigil |-> g[1], secret |-> g[2]]

\* -------------------------------------------------------- core/protocol.py
Directives ==
    {"INITIATE_NEURAL_LINK", "TERMINATE_LINK", "HEARTBEAT",
     "SYNC_MEMORY", "QUERY_MEMORY", "UPDATE_MEMORY",
     "GITHUB_QUERY", "GITHUB_UPDATE", "GITHUB_CREATE",
     "REQUEST_SANCTUARY_PROTOCOL", "EMERGENCY_SHUTDOWN",
     "TRANSMIT_TELEMETRY", "QUERY_CAPABILITY"}

\* DirectiveRegistry of core/protocol.py: dir(cls) holds the 13 class
\* attributes, the two class methods and what a class inherits from object
\* (a few of those names stand for all of them)
RegistryDir ==
    Directives \cup {"is_valid", "list_all", "__doc__", "__module__", "__dict__",
                     "__class__", "__init__"}
\* names with a lower-case character, for which str.isupper() is false
LowerCaseNames ==
    {"is_valid", "list_all", "__doc__", "__module__", "__dict__", "__class__",
     "__init__", "heartbeat", "foo_bar"}
\* hasattr(cls, directive)
is_valid(directive) == directive \in RegistryDir
\* [attr for attr in dir(cls) if attr.isupper()]
list_all == {attr \in RegistryDir : attr \notin LowerCaseNames}

\* NeuralMessage.validate.  A directive is a sequence of characters here
\* (the empty one stands for None as well, both are falsy): str.isupper() is
\* true when no cased character is lower-case and there is at least one
\* cased character
UpperChars == {"H"}
LowerChars == {"h"}
UncasedChars == {"_"}
isupper(s) ==
    /\ \A i \in 1..Len(s) : s[i] \notin LowerChars
    /\ \E i \in 1..Len(s) : s[i] \in UpperChars

\* a faulty variant: directive == directive.upper() in place of isupper()
NeuralMessage_validate_UpperEquals(agent_id, auth_sigil, directive) ==
    IF ~(Truthy(agent_id) /\ Truthy(auth_sigil) /\ Len(directive) > 0) THEN FALSE
    ELSE IF Len(SplitOn(auth_sigil, Tok("-"))) < 5 THEN FALSE
    ELSE IF ~(\A i \in 1..Len(directive) : directive[i] \notin LowerChars) THEN FALSE
    ELSE TRUE

NeuralMessage_validate(agent_id, auth_sigil, directive) ==
    IF ~(Truthy(agent_id) /\ Truthy(auth_sigil) /\ Len(directive) > 0) THEN FALSE
    ELSE IF Len(SplitOn(auth_sigil, Tok("-"))) < 5 THEN FALSE
    ELSE IF ~isupper(directive) THEN FALSE
    ELSE TRUE

\* core.directives is imported by the bridge but is not among the sources:
\* the registry the bridge calls is modelled from the specification.
is_valid_directive(directive) == directive \in Directives

get_required_tier(directive) ==
    IF directive \in {"EMERGENCY_SHUTDOWN", "REQUEST_SANCTUARY_PROTOCOL"} THEN "TIER1"
    ELSE IF directive \in {"INITIATE_NEURAL_LINK", "TERMINATE_LINK", "HEARTBEAT",
                           "QUERY_CAPABILITY"} THEN "TIER3"
    ELSE "TIER2"

\* ------------------------------------------------------ inputs of the model
AgentIds == {Lit("a1"), Lit("a2")}

\* sigils the bridge's authenticator has issued out of band
IssuedSigil(tier, secret) ==
    generate_sigil("MW", "JGN", tier, "SNTNL", secret, Lit("t1"), Lit("k9"))[1]

\* an issued sigil whose signature was replaced
TamperedSigil == RSplit1(IssuedSigil("TIER1", Lit("a1")), Tok(":"))[1] \o COLON \o Lit("0000")

\* a sigil without signature (MICROWAVE_AUTH_SIGIL of the example script)
UnsignedSigil == RSplit1(IssuedSigil("TIER1", Lit("a1")), Tok(":"))[1]

SigilInputs ==
    {IssuedSigil("TIER1", Lit("a1")), IssuedSigil("TIER3", Lit("a1")),
     TamperedSigil, UnsignedSigil}

\* the values secrets.token_hex hands out, in the order of the draws; a
\* value drawn is not drawn again
TokenDraws == <<Lit("t1"), Lit("t2")>>
SecretDraws == <<Lit("k9"), Lit("k8")>>

\* agent secrets a caller supplies to generate_sigil (None, empty, a string)
\* and to validate_sigil and rotate_sigil
SuppliedSecrets == {PyNone, EmptyStr, Lit("s1")}
SecretInputs == {Lit("s1"), Lit("s2"), SecretDraws[1], EmptyStr}

SigilBase(sigil) == RSplit1(sigil, Tok(":"))[1]
SigilSignature(sigil) == RSplit1(sigil, Tok(":"))[2]

\* a generated sigil, and the same with another signature part: replaced,
\* or one character longer
SigilsOf(sigil) ==
    {sigil,
     SigilBase(sigil) \o COLON \o Lit("0000"),
     sigil \o Lit("0")}

\* sigil strings the authenticator did not issue
ShortBase == Lit("MW") \o DASH \o Lit("JGN")
\* fewer than 5 fields, signed with the master secret for agent secret s1
SignedShortSigil ==
    ShortBase \o COLON \o HmacHex16(master_secret, ShortBase \o COLON \o Lit("s1"))
\* 5 fields, a prefix outside AgentPrefix, signed the same way
UnknownPrefixBase ==
    Lit("XX") \o DASH \o Lit("JGN") \o DASH \o Lit("TIER1") \o DASH \o Lit("SNTNL")
    \o DASH \o Lit("t0")
UnknownPrefixSigil ==
    UnknownPrefixBase \o COLON
    \o HmacHex16(master_secret, UnknownPrefixBase \o COLON \o Lit("s1"))
ForeignSigils ==
    {EmptyStr, Lit("garbage"), UnsignedSigil, COLON,
     ShortBase \o COLON \o Lit("0000"), SignedShortSigil, UnknownPrefixSigil}

\* envelopes handed to NeuralMessage.validate
DirectiveChars == UpperChars \cup LowerChars \cup UncasedChars
DirectiveTexts ==
    {EmptyStr} \cup {<<c>> : c \in DirectiveChars}
    \cup {<<c, d>> : c \in DirectiveChars, d \in DirectiveChars}
EnvelopeIds == {PyNone, EmptyStr, Lit("a1")}
EnvelopeSigils ==
    {PyNone, EmptyStr, ShortBase, UnsignedSigil, IssuedSigil("TIER1", Lit("a1")),
     DASH \o DASH \o DASH \o DASH}

\* names asked of DirectiveRegistry.is_valid
NameInputs == RegistryDir \cup {"FOO_BAR", "heartbeat", "foo_bar"}

DirectiveInputs == {"HEARTBEAT", "TERMINATE_LINK", "EMERGENCY_SHUTDOWN", "FOO_BAR"}

RequiredFields == {"agent_id", "auth_sigil", "directive", "payload"}

\* a request body or a frame text: not JSON, a JSON number, or a JSON object
\* with the keys in has
NotJson == [json |-> FALSE, kind |-> "none", has |-> {}, agent_id |-> EmptyStr,
            auth_sigil |-> EmptyStr, directive |-> "", capabilities |-> <<>>,
            endpoint |-> PyNone]
JsonNumber == [NotJson EXCEPT !.json = TRUE, !.kind = "number"]
JsonObject(has, agent_id, auth_sigil, directive, capabilities, endpoint) ==
    [json |-> TRUE, kind |-> "object", has |-> has, agent_id |-> agent_id,
     auth_sigil |-> auth_sigil, directive |-> directive,
     capabilities |-> capabilities, endpoint |-> endpoint]

Envelope(agent_id, auth_sigil, directive) ==
    JsonObject(RequiredFields, agent_id, auth_sigil, directive, <<>>, PyNone)

\* envelopes of agent a1 (whose id is also its agent secret) with every sigil
\* and directive, and envelopes of agent a2 presenting a1's sigil
Envelopes ==
    {Envelope(Lit("a1"), g, d) : g \in SigilInputs, d \in DirectiveInputs}
    \cup {Envelope(Lit("a2"), IssuedSigil("TIER1", Lit("a1")), d) :
            d \in {"HEARTBEAT", "TERMINATE_LINK"}}

InvokeBodies ==
    {NotJson, JsonNumber,
     JsonObject({}, EmptyStr, EmptyStr, "", <<>>, PyNone),
     JsonObject(RequiredFields \ {"payload"}, Lit("a1"),
                IssuedSigil("TIER1", Lit("a1")), "HEARTBEAT", <<>>, PyNone)}
    \cup Envelopes

RegisterBodies ==
    {NotJson, JsonNumber,
     JsonObject({}, EmptyStr, EmptyStr, "", <<>>, PyNone),
     JsonObject({"agent_id"}, EmptyStr, EmptyStr, "", <<>>, PyNone),
     JsonObject({"agent_id"}, Lit("a1"), EmptyStr, "", <<>>, PyNone),
     JsonObject({"agent_id", "capabilities", "endpoint"}, Lit("a1"), EmptyStr, "",
                <<"c1">>, Lit("e1")),
     JsonObject({"agent_id", "capabilities", "endpoint"}, Lit("a2"), EmptyStr, "",
                <<"c1">>, Lit("e1"))}

FrameBodies ==
    {NotJson, JsonNumber, JsonObject({}, EmptyStr, EmptyStr, "", <<>>, PyNone),
     JsonObject({"directive"}, EmptyStr, EmptyStr, "INITIATE_NEURAL_LINK", <<>>, PyNone)}
    \cup {Envelope(Lit("a1"), g, "INITIATE_NEURAL_LINK") :
            g \in {IssuedSigil("TIER1", Lit("a1")), TamperedSigil}}
    \cup {Envelope(Lit("a1"), IssuedSigil("TIER1", Lit("a1")), d) :
            d \in {"HEARTBEAT", "TERMINATE_LINK", "FOO_BAR"}}

\* frames a peer sends: one that is ignored, and a handshake
ArrivingFrames ==
    {Envelope(Lit("a1"), IssuedSigil("TIER1", Lit("a1")), "HEARTBEAT"),
     Envelope(Lit("a1"), IssuedSigil("TIER1", Lit("a1")), "INITIATE_NEURAL_LINK")}

\* aiohttp.WSMsgType values the loop can be handed
WsMsgTypes == {"TEXT", "BINARY", "ERROR"}

\* ------------------------------------------------------- Python values
PyBool(b) == [type |-> "bool", val |-> b]
\* obj[key] raises TypeError unless obj is a mapping
Subscriptable(obj) == obj.type = "dict"

\* -------------------------------------------------- bridges/janus_server.py
Sessions == 1..MaxSessions
NoSocket == 0

AgentConnection(agent_id, now, capabilities, endpoint, websocket) ==
    [agent_id |-> agent_id, connected_at |-> now, last_heartbeat |-> now,
     capabilities |-> capabilities, endpoint |-> endpoint, websocket |-> websocket]

\* a faulty variant: setdefault, a key already present keeps its value
DictSet_KeepsExisting(d, k, v) ==
    [x \in DOMAIN d \cup {k} |-> IF x \in DOMAIN d THEN d[x] ELSE v]

\* dict assignment d[k] = v
DictSet(d, k, v) == [x \in DOMAIN d \cup {k} |-> IF x = k THEN v ELSE d[x]]
\* del d[k]
DictDel(d, k) == [x \in DOMAIN d \ {k} |-> d[x]]

\* a faulty variant: a strict comparison
_check_tier_Strict(agent_tier, required_tier) ==
    LET tier_order(t) == IF t = "TIER3" THEN 1
                         ELSE IF t = "TIER2" THEN 2
                         ELSE IF t = "TIER1" THEN 3 ELSE 0
    IN  tier_order(agent_tier) > tier_order(required_tier)

_check_tier(agent_tier, required_tier) ==
    LET tier_order(t) == IF t = "TIER3" THEN 1
                         ELSE IF t = "TIER2" THEN 2
                         ELSE IF t = "TIER1" THEN 3 ELSE 0
    IN  tier_order(agent_tier) >= tier_order(required_tier)

\* _route_message: a fixed response per directive, no state is touched
_route_message(data) ==
    IF "directive" \notin data.has
    THEN [exc |-> "KeyError", status |-> "", message |-> ""]
    ELSE IF data.directive = "INITIATE_NEURAL_LINK"
    THEN [exc |-> "none", status |-> "success", message |-> "Link established"]
    ELSE IF data.directive = "TERMINATE_LINK"
    THEN [exc |-> "none", status |-> "success", message |-> "Link terminated"]
    ELSE IF data.directive = "HEARTBEAT"
    THEN [exc |-> "none", status |-> "success", message |-> "server_time"]
    ELSE IF data.directive = "QUERY_CAPABILITY"
    THEN [exc |-> "none", status |-> "success", message |-> "capabilities"]
    ELSE [exc |-> "none", status |-> "success", message |-> "processed"]

VARIABLES connected_agents, websockets, metrics,
          ws_state, ws_agent, ws_sent, ws_n,
          http_n, invoke_success, last, call, ws_inbox, ws_handled

vars == <<connected_agents, websockets, metrics,
          ws_state, ws_agent, ws_sent, ws_n,
          http_n, invoke_success, last, call, ws_inbox, ws_handled>>

\* what the handler that ran last answered: the HTTP status and code, the
\* exception its body raised, whether it called _route_message; for a
\* WebSocket message its type and the directive of its JSON object; for a
\* GET the numbers of its response body
Event(op, s, status, code, exc, routed) ==
    [op |-> op, s |-> s, type |-> "", directive |-> "", status |-> status,
     code |-> code, exc |-> exc, routed |-> routed, body |-> <<>>]

\* a sigil generate_sigil returned, with the arguments of that call
Issued(prefix, role, tier, sigil_type, supplied, sigil, secret) ==
    [issued |-> TRUE, prefix |-> prefix, role |-> role, tier |-> tier,
     type |-> sigil_type, supplied |-> supplied, sigil |-> sigil, secret |-> secret]
NotIssued ==
    [issued |-> FALSE, prefix |-> "", role |-> "", tier |-> "", type |-> "",
     supplied |-> PyNone, sigil |-> EmptyStr, secret |-> EmptyStr]

\* the call of the authenticator or of the tier check made last: its
\* arguments and what it returned; g is the sigil generated before it
NoCall == [op |-> "none", g |-> NotIssued]

Init ==
    /\ connected_agents = <<>>
    /\ websockets = {}
    /\ metrics = [messages_processed |-> 0, messages_failed |-> 0,
                  auth_failures |-> 0, active_connections |-> 0]
    /\ ws_state = [s \in Sessions |-> "new"]
    /\ ws_agent = [s \in Sessions |-> PyNone]
    /\ ws_sent = [s \in Sessions |-> <<>>]
    /\ ws_n = 0
    /\ http_n = 0
    /\ invoke_success = 0
    /\ last = Event("init", 0, 0, "", "none", FALSE)
    /\ call = NoCall
    /\ ws_inbox = [s \in Sessions |-> <<>>]
    /\ ws_handled = [s \in Sessions |-> <<>>]

\* datetime.utcnow(): a logical clock, the number of POST requests and
\* WebSocket messages the bridge has taken so far
utcnow == http_n + ws_n

\* ---- handle_invoke
Return(status, code, auth_failed, routed) ==
    [exc |-> "none", status |-> status, code |-> code,
     auth_failed |-> auth_failed, routed |-> routed]
Raise(exc) ==
    [exc |-> exc, status |-> 0, code |-> "", auth_failed |-> FALSE, routed |-> FALSE]

\* the try block, lines 69-122
InvokeTry(data) ==
    IF ~data.json THEN Raise("JSONDecodeError")
    ELSE IF data.kind # "object" THEN Raise("TypeError")
    ELSE IF ~(RequiredFields \subseteq data.has) THEN Return(400, "MISSING_FIELDS", FALSE, FALSE)
    ELSE LET auth_result == PyBool(validate_sigil(data.auth_sigil, data.agent_id))
         IN  IF ~Subscriptable(auth_result) THEN Raise("TypeError")
             ELSE IF ~auth_result.items.valid THEN Return(401, "AUTH_FAILED", TRUE, FALSE)
             ELSE IF ~is_valid_directive(data.directive)
             THEN Return(400, "INVALID_DIRECTIVE", FALSE, FALSE)
             ELSE IF ~_check_tier(auth_result.items.tier, get_required_tier(data.directive))
             THEN Return(403, "PERMISSION_DENIED", FALSE, FALSE)
             ELSE IF _route_message(data).exc # "none" THEN Raise(_route_message(data).exc)
             ELSE Return(200, "success", FALSE, TRUE)

\* faulty variants of the except clauses: the processed counter moved on a
\* fault, the failed counter forgotten
InvokeExcept_CountsProcessed(exc) ==
    IF exc = "JSONDecodeError"
    THEN [status |-> 400, code |-> "INVALID_JSON", failed |-> 0, processed |-> 0]
    ELSE [status |-> 500, code |-> "INTERNAL_ERROR", failed |-> 1, processed |-> 1]
InvokeExcept_NoFailedCount(exc) ==
    IF exc = "JSONDecodeError"
    THEN [status |-> 400, code |-> "INVALID_JSON", failed |-> 0, processed |-> 0]
    ELSE [status |-> 500, code |-> "INTERNAL_ERROR", failed |-> 0, processed |-> 0]

\* a faulty variant: a fault is counted twice
InvokeExcept_CountsTwice(exc) ==
    IF exc = "JSONDecodeError"
    THEN [status |-> 400, code |-> "INVALID_JSON", failed |-> 0, processed |-> 0]
    ELSE [status |-> 500, code |-> "INTERNAL_ERROR", failed |-> 2, processed |-> 0]

\* the except clauses, lines 124-137: the response and the failed-counter step
InvokeExcept(exc) ==
    IF exc = "JSONDecodeError"
    THEN [status |-> 400, code |-> "INVALID_JSON", failed |-> 0, processed |-> 0]
    ELSE [status |-> 500, code |-> "INTERNAL_ERROR", failed |-> 1, processed |-> 0]

\* a faulty variant: the request takes the record of its agent away
handle_invoke_DropsRecord(data) ==
    /\ utcnow < MaxEvents
    /\ LET r == InvokeTry(data)
           x == InvokeExcept(r.exc)
           status == IF r.exc = "none" THEN r.status ELSE x.status
           code == IF r.exc = "none" THEN r.code ELSE x.code
       IN  /\ metrics' =
                [metrics EXCEPT
                   !.auth_failures = @ + (IF r.auth_failed THEN 1 ELSE 0),
                   !.messages_processed =
                       @ + (IF r.exc = "none" THEN (IF r.routed THEN 1 ELSE 0) ELSE x.processed),
                   !.messages_failed = @ + (IF r.exc = "none" THEN 0 ELSE x.failed)]
           /\ invoke_success' = invoke_success + (IF status = 200 THEN 1 ELSE 0)
           /\ last' = Event("invoke", 0, status, code, r.exc, r.routed)
    /\ http_n' = http_n + 1
    /\ connected_agents' = IF data.json /\ data.kind = "object" /\ "agent_id" \in data.has
                               /\ data.agent_id \in DOMAIN connected_agents
                            THEN DictDel(connected_agents, data.agent_id)
                            ELSE connected_agents
    /\ UNCHANGED <<call, ws_inbox, ws_handled, websockets, ws_state, ws_agent,
                   ws_sent, ws_n>>

handle_invoke(data) ==
    /\ utcnow < MaxEvents
    /\ LET r == InvokeTry(data)
           x == InvokeExcept(r.exc)
           status == IF r.exc = "none" THEN r.status ELSE x.status
           code == IF r.exc = "none" THEN r.code ELSE x.code
       IN  /\ metrics' =
                [metrics EXCEPT
                   !.auth_failures = @ + (IF r.auth_failed THEN 1 ELSE 0),
                   !.messages_processed =
                       @ + (IF r.exc = "none" THEN (IF r.routed THEN 1 ELSE 0) ELSE x.processed),
                   !.messages_failed = @ + (IF r.exc = "none" THEN 0 ELSE x.failed)]
           /\ invoke_success' = invoke_success + (IF status = 200 THEN 1 ELSE 0)
           /\ last' = Event("invoke", 0, status, code, r.exc, r.routed)
    /\ http_n' = http_n + 1
    /\ UNCHANGED <<call, ws_inbox, ws_handled, connected_agents, websockets, ws_state, ws_agent,
                   ws_sent, ws_n>>

\* ---- handle_register
handle_register(data) ==
    /\ utcnow < MaxEvents
    /\ http_n' = http_n + 1
    /\ IF ~data.json \/ data.kind # "object"
       THEN \* request.json() or data.get raises: except Exception, 500
            /\ connected_agents' = connected_agents
            /\ last' = Event("register", 0, 500, "error",
                             IF data.json THEN "AttributeError" ELSE "JSONDecodeError", FALSE)
       ELSE LET agent_id == IF "agent_id" \in data.has THEN data.agent_id ELSE PyNone
                capabilities == IF "capabilities" \in data.has THEN data.capabilities ELSE <<>>
                endpoint == IF "endpoint" \in data.has THEN data.endpoint ELSE PyNone
            IN  IF ~Truthy(agent_id)
                THEN /\ connected_agents' = connected_agents
                     /\ last' = Event("register", 0, 400, "error", "none", FALSE)
                ELSE /\ connected_agents' =
                            DictSet(connected_agents, agent_id,
                                    AgentConnection(agent_id, utcnow, capabilities,
                                                    endpoint, NoSocket))
                     /\ last' = Event("register", 0, 200, "success", "none", FALSE)
    /\ UNCHANGED <<call, ws_inbox, ws_handled, websockets, metrics, ws_state, ws_agent, ws_sent,
                   ws_n, invoke_success>>

\* ---- handle_health, handle_metrics, handle_discover: they read the state
\* a faulty variant: the open sockets reported as the active agents
HealthBody_CountsSockets ==
    <<Cardinality(websockets), Cardinality(websockets)>>

\* active_agents and active_websockets, lines 213-214
HealthBody == <<Cardinality(DOMAIN connected_agents), Cardinality(websockets)>>

handle_health ==
    /\ last' = [Event("health", 0, 200, "healthy", "none", FALSE) EXCEPT !.body = HealthBody]
    /\ UNCHANGED <<call, ws_inbox, ws_handled, connected_agents, websockets, metrics, ws_state, ws_agent, ws_sent,
                   ws_n, http_n, invoke_success>>

\* the five lines of the metrics text, lines 220-226
MetricsBody ==
    <<metrics.messages_processed, metrics.messages_failed, metrics.auth_failures,
      metrics.active_connections, Cardinality(DOMAIN connected_agents)>>

handle_metrics ==
    /\ last' = [Event("metrics", 0, 200, "", "none", FALSE) EXCEPT !.body = MetricsBody]
    /\ UNCHANGED <<call, ws_inbox, ws_handled, connected_agents, websockets, metrics, ws_state, ws_agent, ws_sent,
                   ws_n, http_n, invoke_success>>

\* the listed agents (without their socket) and their count, lines 266-281
DiscoverBody ==
    <<Cardinality(DOMAIN connected_agents),
      {[agent_id |-> connected_agents[a].agent_id,
        capabilities |-> connected_agents[a].capabilities,
        connected_at |-> connected_agents[a].connected_at,
        last_heartbeat |-> connected_agents[a].last_heartbeat,
        endpoint |-> connected_agents[a].endpoint] : a \in DOMAIN connected_agents}>>

handle_discover ==
    /\ last' = [Event("discover", 0, 200, "success", "none", FALSE) EXCEPT !.body = DiscoverBody]
    /\ UNCHANGED <<call, ws_inbox, ws_handled, connected_agents, websockets, metrics, ws_state, ws_agent, ws_sent,
                   ws_n, http_n, invoke_success>>

\* ---- handle_websocket
\* a faulty variant: the socket is added and not counted
ws_connect_NoGauge(s) ==
    /\ ws_state[s] = "new"
    /\ ws_state' = [ws_state EXCEPT ![s] = "open"]
    /\ websockets' = websockets \cup {s}
    /\ metrics' = metrics
    /\ last' = Event("ws_connect", s, 0, "", "none", FALSE)
    /\ UNCHANGED <<call, ws_inbox, ws_handled, connected_agents, ws_agent, ws_sent, ws_n,
                   http_n, invoke_success>>

\* lines 141-146: the socket is prepared, added and counted
ws_connect(s) ==
    /\ ws_state[s] = "new"
    /\ ws_state' = [ws_state EXCEPT ![s] = "open"]
    /\ websockets' = websockets \cup {s}
    /\ metrics' = [metrics EXCEPT !.active_connections = @ + 1]
    /\ last' = Event("ws_connect", s, 0, "", "none", FALSE)
    /\ UNCHANGED <<call, ws_inbox, ws_handled, connected_agents, ws_agent, ws_sent, ws_n,
                   http_n, invoke_success>>

WsStep(exc, agent_id, agents, sent, brk) ==
    [exc |-> exc, agent_id |-> agent_id, agents |-> agents, sent |-> sent, brk |-> brk,
     routed |-> FALSE]

Frame(status, message) == [status |-> status, message |-> message]

\* a variant with an else: a message that matches neither branch is refused
\* and ends the loop
WsIgnored_Refuses(agent_id, agents) ==
    WsStep("none", agent_id, agents, <<Frame("error", "AUTH_REQUIRED")>>, TRUE)

\* a variant without the test of agent_id at line 183: the message of a
\* session that has not authenticated is routed and answered
WsIgnored_Routes(agent_id, agents) ==
    [WsStep("none", agent_id, agents, <<Frame("success", "routed")>>, FALSE)
        EXCEPT !.routed = TRUE]

\* a message that matches neither the if of line 154 nor the elif of line 183:
\* there is no else, nothing is sent and the loop goes on
WsIgnored(agent_id, agents) == WsStep("none", agent_id, agents, <<>>, FALSE)

\* the body of the loop for one TEXT message, lines 151-194
WsText(s, agent_id, data, agents, now) ==
    IF ~data.json THEN WsStep("JSONDecodeError", agent_id, agents, <<>>, FALSE)
    ELSE IF data.kind # "object" THEN WsStep("AttributeError", agent_id, agents, <<>>, FALSE)
    ELSE
    LET directive == IF "directive" \in data.has THEN data.directive ELSE "<None>"
    IN  IF ~Truthy(agent_id) /\ directive = "INITIATE_NEURAL_LINK"
        THEN IF ~({"auth_sigil", "agent_id"} \subseteq data.has)
             THEN WsStep("KeyError", agent_id, agents, <<>>, FALSE)
             ELSE LET auth_result == PyBool(validate_sigil(data.auth_sigil, data.agent_id))
                  IN  IF ~Subscriptable(auth_result)
                      THEN WsStep("TypeError", agent_id, agents, <<>>, FALSE)
                      ELSE IF auth_result.items.valid
                      THEN WsStep("none", data.agent_id,
                                  DictSet(agents, data.agent_id,
                                          AgentConnection(data.agent_id, now,
                                                          data.capabilities, PyNone, s)),
                                  <<Frame("success", "Neural link established")>>, FALSE)
                      ELSE WsStep("none", agent_id, agents,
                                  <<Frame("error", "AUTH_FAILED")>>, TRUE)
        ELSE IF Truthy(agent_id)
        THEN IF directive = "HEARTBEAT"
             THEN IF agent_id \notin DOMAIN agents
                  THEN WsStep("KeyError", agent_id, agents, <<>>, FALSE)
                  ELSE WsStep("none", agent_id,
                              [agents EXCEPT ![agent_id].last_heartbeat = now],
                              <<Frame("success", "Heartbeat acknowledged")>>, FALSE)
             ELSE LET result == _route_message(data)
                  IN  IF result.exc # "none"
                      THEN [WsStep(result.exc, agent_id, agents, <<>>, FALSE)
                               EXCEPT !.routed = TRUE]
                      ELSE [WsStep("none", agent_id, agents,
                                   <<Frame(result.status, result.message)>>, FALSE)
                               EXCEPT !.routed = TRUE]
        ELSE WsIgnored(agent_id, agents)

\* a faulty variant: the finally block forgets the gauge
WsFinally_KeepsGauge(s, agent_id, agents) ==
    [websockets |-> websockets \ {s},
     active_connections |-> metrics.active_connections,
     agents |-> IF Truthy(agent_id) /\ agent_id \in DOMAIN agents
                THEN DictDel(agents, agent_id) ELSE agents]

\* the finally block, lines 199-204, on the state the loop left
WsFinally(s, agent_id, agents) ==
    [websockets |-> websockets \ {s},
     active_connections |-> metrics.active_connections - 1,
     agents |-> IF Truthy(agent_id) /\ agent_id \in DOMAIN agents
                THEN DictDel(agents, agent_id) ELSE agents]

\* the body of the loop of handle_websocket for one message, and the finally
\* block when the loop ends with it
WsLoopBody(s, type, data) ==
    /\ ws_state[s] = "open"
    /\ utcnow < MaxEvents
    /\ ws_n' = ws_n + 1
    /\ LET r == IF type = "TEXT"
                THEN WsText(s, ws_agent[s], data, connected_agents, utcnow)
                ELSE WsStep("none", ws_agent[s], connected_agents, <<>>, FALSE)
           ends == r.exc # "none" \/ r.brk
           f == WsFinally(s, r.agent_id, r.agents)
       IN  /\ ws_agent' = [ws_agent EXCEPT ![s] = r.agent_id]
           /\ ws_sent' = [ws_sent EXCEPT ![s] = @ \o r.sent]
           /\ ws_state' = [ws_state EXCEPT ![s] = IF ends THEN "closed" ELSE "open"]
           /\ connected_agents' = IF ends THEN f.agents ELSE r.agents
           /\ websockets' = IF ends THEN f.websockets ELSE websockets
           /\ metrics' = IF ends
                         THEN [metrics EXCEPT !.active_connections = f.active_connections]
                         ELSE metrics
           /\ last' = [Event("ws_message", s, 0, "", r.exc, r.routed) EXCEPT
                        !.type = type,
                        !.directive = IF type = "TEXT" /\ data.kind = "object"
                                         /\ "directive" \in data.has
                                      THEN data.directive ELSE ""]
    /\ UNCHANGED <<call, http_n, invoke_success>>

\* one message taken from the socket by the loop of handle_websocket
ws_message(s, type, data) ==
    /\ WsLoopBody(s, type, data)
    /\ UNCHANGED <<ws_inbox, ws_handled>>

\* the peer closes: the loop ends and the finally block runs
ws_peer_close(s) ==
    /\ ws_state[s] = "open"
    /\ LET f == WsFinally(s, ws_agent[s], connected_agents)
       IN  /\ connected_agents' = f.agents
           /\ websockets' = f.websockets
           /\ metrics' = [metrics EXCEPT !.active_connections = f.active_connections]
    /\ ws_state' = [ws_state EXCEPT ![s] = "closed"]
    /\ last' = Event("ws_peer_close", s, 0, "", "none", FALSE)
    /\ UNCHANGED <<call, ws_inbox, ws_handled, ws_agent, ws_sent, ws_n, http_n, invoke_success>>

\* ---- the messages of a session between their arrival and the loop
\* a faulty variant: the loop is handed the newest message
Dequeue_Newest(q) == [msg |-> q[Len(q)], rest |-> SubSeq(q, 1, Len(q) - 1)]

\* async for msg in ws: the oldest message not yet taken, line 149
Dequeue(q) == [msg |-> Head(q), rest |-> Tail(q)]

\* a message of the peer arrives on the socket; n is its rank of arrival
ws_arrive(s, type, data) ==
    /\ ws_state[s] = "open"
    /\ Len(ws_handled[s]) + Len(ws_inbox[s]) < MaxInbox
    /\ ws_inbox' = [ws_inbox EXCEPT ![s] =
                      Append(@, [n |-> Len(ws_handled[s]) + Len(@) + 1,
                                 type |-> type, data |-> data])]
    /\ UNCHANGED <<call, connected_agents, websockets, metrics, ws_state, ws_agent,
                   ws_sent, ws_n, http_n, invoke_success, last, ws_handled>>

\* one turn of the loop on the messages that have arrived
ws_receive(s) ==
    /\ ws_inbox[s] # <<>>
    /\ LET d == Dequeue(ws_inbox[s])
       IN  /\ WsLoopBody(s, d.msg.type, d.msg.data)
           /\ ws_inbox' = [ws_inbox EXCEPT ![s] = d.rest]
           /\ ws_handled' = [ws_handled EXCEPT ![s] = Append(@, d.msg.n)]

\* ---- the authenticator and the tier check, called on their own
bridge_vars == <<connected_agents, websockets, metrics, ws_state, ws_agent,
                 ws_sent, ws_n, http_n, invoke_success, last, ws_inbox, ws_handled>>

call_generate_sigil(prefix, role, tier, sigil_type, agent_secret) ==
    /\ call.op = "none"
    /\ LET r == generate_sigil(prefix, role, tier, sigil_type, agent_secret,
                               TokenDraws[1], SecretDraws[1])
       IN  call' = [op |-> "generate_sigil",
                    g |-> Issued(prefix, role, tier, sigil_type, agent_secret,
                                 r[1], r[2])]
    /\ UNCHANGED bridge_vars

\* the sigils presented to validate_sigil and rotate_sigil: the one generated
\* before (as returned, or altered), or a string the authenticator did not
\* issue
CallSigils == IF call.g.issued THEN SigilsOf(call.g.sigil) ELSE ForeignSigils

call_validate_sigil(sigil, agent_secret) ==
    /\ call.op \in {"none", "generate_sigil"}
    /\ call' = [op |-> "validate_sigil", g |-> call.g, sigil |-> sigil,
                agent_secret |-> agent_secret,
                result |-> validate_sigil(sigil, agent_secret)]
    /\ UNCHANGED bridge_vars

call_rotate_sigil(old_sigil, agent_secret) ==
    /\ call.op \in {"none", "generate_sigil"}
    /\ call' = [op |-> "rotate_sigil", g |-> call.g, sigil |-> old_sigil,
                agent_secret |-> agent_secret,
                result |-> rotate_sigil(old_sigil, agent_secret,
                                        TokenDraws[2], SecretDraws[2])]
    /\ UNCHANGED bridge_vars

call_check_tier(agent_tier, required_tier) ==
    /\ call.op = "none"
    /\ call' = [op |-> "_check_tier", g |-> call.g, agent_tier |-> agent_tier,
                required_tier |-> required_tier,
                result |-> _check_tier(agent_tier, required_tier)]
    /\ UNCHANGED bridge_vars

call_message_validate(agent_id, auth_sigil, directive) ==
    /\ call.op = "none"
    /\ call' = [op |-> "NeuralMessage.validate", g |-> call.g, agent_id |-> agent_id,
                auth_sigil |-> auth_sigil, directive |-> directive,
                result |-> NeuralMessage_validate(agent_id, auth_sigil, directive)]
    /\ UNCHANGED bridge_vars

call_is_valid(directive) ==
    /\ call.op = "none"
    /\ call' = [op |-> "is_valid", g |-> call.g, directive |-> directive,
                result |-> is_valid(directive)]
    /\ UNCHANGED bridge_vars

\* ------------------------------------------------------------- the claims
\* what the envelope of a request says, read off the request alone
Complete(data) == data.json /\ data.kind = "object" /\ RequiredFields \subseteq data.has
SigilValid(data) == validate_sigil(data.auth_sigil, data.agent_id)
\* the tier field of the sigil, as a tier name
SigilTier(data) ==
    LET t == parse_sigil(data.auth_sigil).tier
    IN  IF t = Lit("TIER1") THEN "TIER1" ELSE IF t = Lit("TIER2") THEN "TIER2"
        ELSE IF t = Lit("TIER3") THEN "TIER3" ELSE "?"
TierSufficient(data) == _check_tier(SigilTier(data), get_required_tier(data.directive))

\* C1: every /invoke request is answered by its first failing check, in the
\* order fields (400 MISSING_FIELDS), sigil (401 AUTH_FAILED), directive
\* (400 INVALID_DIRECTIVE), tier (403 PERMISSION_DENIED).
C1_FirstFailingCheck ==
    [][\A data \in InvokeBodies :
         (handle_invoke(data) /\ data.json /\ data.kind = "object") =>
            IF ~Complete(data) THEN last'.status = 400 /\ last'.code = "MISSING_FIELDS"
            ELSE IF ~SigilValid(data) THEN last'.status = 401 /\ last'.code = "AUTH_FAILED"
            ELSE IF ~is_valid_directive(data.directive)
            THEN last'.status = 400 /\ last'.code = "INVALID_DIRECTIVE"
            ELSE IF ~TierSufficient(data)
            THEN last'.status = 403 /\ last'.code = "PERMISSION_DENIED"
            ELSE TRUE]_vars

\* C2: a request with all fields, a sigil that validates, a registered
\* directive and a sufficient tier is answered 200 success.
C2_ValidRequestSucceeds ==
    [][\A data \in InvokeBodies :
         (handle_invoke(data) /\ Complete(data) /\ SigilValid(data)
            /\ is_valid_directive(data.directive) /\ TierSufficient(data)) =>
            last'.status = 200 /\ last'.code = "success"]_vars

\* C3: a request whose sigil validates but whose tier is below the
\* directive's is answered 403 PERMISSION_DENIED, is not routed and leaves
\* the processed counter alone.
C3_InsufficientTierDenied ==
    [][\A data \in InvokeBodies :
         (handle_invoke(data) /\ Complete(data) /\ SigilValid(data)
            /\ is_valid_directive(data.directive) /\ ~TierSufficient(data)) =>
            /\ last'.status = 403 /\ last'.code = "PERMISSION_DENIED"
            /\ ~last'.routed
            /\ metrics'.messages_processed = metrics.messages_processed]_vars

\* C4: a request with all fields whose sigil does not validate is answered
\* 401 AUTH_FAILED, counts one auth failure and leaves the processed and
\* failed counters alone.
C4_InvalidSigilRejected ==
    [][\A data \in InvokeBodies :
         (handle_invoke(data) /\ Complete(data) /\ ~SigilValid(data)) =>
            /\ last'.status = 401 /\ last'.code = "AUTH_FAILED"
            /\ metrics'.auth_failures = metrics.auth_failures + 1
            /\ metrics'.messages_processed = metrics.messages_processed
            /\ metrics'.messages_failed = metrics.messages_failed]_vars

C6_FaultCaught ==
    [][(last'.op = "invoke" /\ last'.exc \notin {"none", "JSONDecodeError"}) =>
            /\ last'.status = 500 /\ last'.code = "INTERNAL_ERROR"
            /\ metrics'.messages_failed = metrics.messages_failed + 1
            /\ metrics'.messages_processed = metrics.messages_processed
            /\ ws_state' = ws_state /\ websockets' = websockets
            /\ connected_agents' = connected_agents]_vars

\* a fault was counted, and a later request was answered on its merits
C6_Witness ==
    /\ metrics.messages_failed >= 1
    /\ last.op = "invoke" /\ last.code = "MISSING_FIELDS"

\* C7: the handshake.  An INITIATE_NEURAL_LINK frame on an unauthenticated
\* session authenticates it, creates the record and is acknowledged when the
\* sigil validates; otherwise an error is sent, the session is closed and no
\* record is created.
InitiateFrame(data) ==
    /\ data.json /\ data.kind = "object"
    /\ {"directive", "auth_sigil", "agent_id"} \subseteq data.has
    /\ data.directive = "INITIATE_NEURAL_LINK"
C7_Handshake ==
    [][\A s \in Sessions, data \in FrameBodies :
         (ws_message(s, "TEXT", data) /\ ~Truthy(ws_agent[s]) /\ InitiateFrame(data)) =>
            IF SigilValid(data)
            THEN /\ ws_agent'[s] = data.agent_id
                 /\ ws_state'[s] = "open"
                 /\ data.agent_id \in DOMAIN connected_agents'
                 /\ ws_sent'[s] = ws_sent[s] \o <<Frame("success", "Neural link established")>>
            ELSE /\ ws_state'[s] = "closed"
                 /\ Len(ws_sent'[s]) = Len(ws_sent[s]) + 1
                 /\ ws_sent'[s][Len(ws_sent'[s])].status = "error"
                 /\ connected_agents' = connected_agents]_vars

\* C8 as stated: a first frame with another directive than
\* INITIATE_NEURAL_LINK does not authenticate the session and closes it with
\* an error frame.
OtherDirectiveFrame(data) ==
    /\ data.json /\ data.kind = "object" /\ "directive" \in data.has
    /\ data.directive # "INITIATE_NEURAL_LINK"
C8_FirstFrameClosesSession ==
    [][\A s \in Sessions, data \in FrameBodies :
         (ws_message(s, "TEXT", data) /\ ws_n = 0 /\ OtherDirectiveFrame(data)) =>
            /\ ~Truthy(ws_agent'[s])
            /\ ws_state'[s] = "closed"
            /\ Len(ws_sent'[s]) = Len(ws_sent[s]) + 1
            /\ ws_sent'[s][Len(ws_sent'[s])].status = "error"]_vars

\* C8 amended: a frame with another directive than INITIATE_NEURAL_LINK on an
\* unauthenticated session (the first frame of a session is one) is ignored:
\* the session stays unauthenticated and open, nothing is sent, and the
\* table, the sockets and the metrics are unchanged.
C8_FrameIgnored ==
    [][(/\ last'.op = "ws_message" /\ last'.type = "TEXT"
        /\ last'.directive \notin {"", "INITIATE_NEURAL_LINK"}
        /\ ~Truthy(ws_agent[last'.s])) =>
            /\ ~Truthy(ws_agent'[last'.s])
            /\ ws_state'[last'.s] = "open"
            /\ ws_sent' = ws_sent
            /\ connected_agents' = connected_agents
            /\ websockets' = websockets
            /\ metrics' = metrics]_vars

\* the first message any session received was a HEARTBEAT, and the session
\* is open and unauthenticated
C8_Witness ==
    /\ ws_n = 1 /\ last.op = "ws_message" /\ last.type = "TEXT"
    /\ last.directive = "HEARTBEAT"
    /\ ws_state[last.s] = "open" /\ ~Truthy(ws_agent[last.s])

\* C9: whenever a session ends, its socket leaves the set of open sockets,
\* the gauge goes down by one, and the record of the session's agent, if the
\* session has one, is not in the table.
C9_SessionEndCleansUp ==
    [][\A s \in Sessions :
         (ws_state[s] = "open" /\ ws_state'[s] = "closed") =>
            /\ s \in websockets /\ s \notin websockets'
            /\ metrics'.active_connections = metrics.active_connections - 1
            /\ (Truthy(ws_agent'[s]) => ws_agent'[s] \notin DOMAIN connected_agents')]_vars

\* a session ended on a fault in the handshake, another one had ended before
C9_Witness ==
    /\ last.op = "ws_message" /\ last.exc = "TypeError"
    /\ ws_state[last.s] = "closed" /\ last.s \notin websockets
    /\ \E t \in Sessions \ {last.s} : ws_state[t] = "closed"

\* C10: once the bridge has answered a TERMINATE_LINK of an agent that has a
\* record, the record is gone.
C10_TerminateRemovesRecord ==
    [][\A data \in InvokeBodies :
         (handle_invoke(data) /\ Complete(data) /\ data.directive = "TERMINATE_LINK"
            /\ data.agent_id \in DOMAIN connected_agents) =>
            data.agent_id \notin DOMAIN connected_agents']_vars

\* C13: a fault while a WebSocket frame is handled (a frame that is not
\* JSON, a missing field, a fault in routing) closes the session with an
\* error frame sent to the peer, and the other sessions are left as they were.
C13_FaultSendsErrorFrame ==
    [][(last'.op = "ws_message" /\ last'.exc # "none") =>
         LET s == last'.s
         IN  /\ ws_state'[s] = "closed"
             /\ Len(ws_sent'[s]) = Len(ws_sent[s]) + 1
             /\ ws_sent'[s][Len(ws_sent'[s])].status = "error"
             /\ \A t \in Sessions \ {s} :
                    ws_state'[t] = ws_state[t] /\ ws_sent'[t] = ws_sent[t]]_vars

\* C14: GET /health, GET /metrics and GET /agents/discover leave the table,
\* the sockets, the counters and the gauge as they were, whatever came before
\* them, and /health reports the number of records as active_agents and the
\* number of open sockets as active_websockets.
C14_ReadOnlyEndpoints ==
    [][last'.op \in {"health", "metrics", "discover"} =>
         /\ UNCHANGED <<connected_agents, websockets, metrics, ws_state,
                        ws_agent, ws_sent>>
         /\ last'.status = 200
         /\ last'.op = "health" =>
               last'.body = <<Cardinality(DOMAIN connected_agents'),
                              Cardinality(websockets')>>]_vars

\* a health answer given with two records and one open socket
C14_Witness ==
    /\ last.op = "health" /\ last.body = <<2, 1>>
    /\ Cardinality(DOMAIN connected_agents) = 2
    /\ Cardinality(websockets) = 1

\* C15: POST /agents/register without an agent_id, or with an empty one, is
\* answered 400 and leaves the table alone; with a non-empty agent_id it is
\* answered 200 and the table then holds the record of that id with the
\* submitted capabilities and endpoint, the records of the other ids being
\* as they were.
C15_RegisterEffect ==
    [][last'.op = "register" =>
         \A data \in RegisterBodies :
            (handle_register(data) /\ data.json /\ data.kind = "object") =>
               IF "agent_id" \notin data.has \/ data.agent_id = EmptyStr
               THEN last'.status = 400 /\ connected_agents' = connected_agents
               ELSE LET id == data.agent_id
                    IN  /\ last'.status = 200
                        /\ id \in DOMAIN connected_agents'
                        /\ connected_agents'[id].agent_id = id
                        /\ connected_agents'[id].capabilities =
                              (IF "capabilities" \in data.has
                               THEN data.capabilities ELSE <<>>)
                        /\ connected_agents'[id].endpoint =
                              (IF "endpoint" \in data.has THEN data.endpoint ELSE PyNone)
                        /\ DOMAIN connected_agents' = DOMAIN connected_agents \cup {id}
                        /\ \A a \in DOMAIN connected_agents \ {id} :
                              connected_agents'[a] = connected_agents[a]]_vars

\* a1 registered again, now with capabilities, while a2 keeps its record
C15_Witness ==
    /\ last.op = "register" /\ last.status = 200
    /\ DOMAIN connected_agents = {Lit("a1"), Lit("a2")}
    /\ connected_agents[Lit("a1")].capabilities = <<"c1">>
    /\ connected_agents[Lit("a1")].connected_at = 2
    /\ connected_agents[Lit("a2")].connected_at = 0

\* C16: for every prefix, role, tier and type of the enumerations and every
\* agent secret, supplied or freshly drawn, the sigil generate_sigil returns
\* validates under the agent secret generate_sigil returns.
C16_GeneratedSigilValidates ==
    (call.op = "validate_sigil" /\ call.g.issued
        /\ call.sigil = call.g.sigil /\ call.agent_secret = call.g.secret)
    => call.result = TRUE

\* a sigil generated without a supplied secret, validated under the drawn one
C16_Witness ==
    /\ call.op = "validate_sigil" /\ call.g.issued
    /\ call.g.supplied = PyNone /\ call.g.tier = "TIER3"
    /\ call.sigil = call.g.sigil /\ call.agent_secret = call.g.secret
    /\ call.agent_secret = SecretDraws[1]
    /\ call.result = TRUE

\* C17: a generated sigil whose signature part was altered does not validate
\* under its agent secret, and a generated sigil does not validate under any
\* other agent secret.
C17_AlteredOrWrongSecretFails ==
    (call.op = "validate_sigil" /\ call.g.issued
        /\ \/ /\ SigilBase(call.sigil) = SigilBase(call.g.sigil)
              /\ SigilSignature(call.sigil) # SigilSignature(call.g.sigil)
              /\ call.agent_secret = call.g.secret
           \/ /\ call.sigil = call.g.sigil
              /\ call.agent_secret # call.g.secret)
    => call.result = FALSE

\* the generated sigil, presented with another agent secret
C17_Witness ==
    /\ call.op = "validate_sigil" /\ call.g.issued
    /\ call.sigil = call.g.sigil
    /\ call.g.secret = Lit("s1") /\ call.agent_secret = Lit("s2")
    /\ call.result = FALSE

C19_MalformedRejected ==
    (call.op = "validate_sigil"
        /\ \/ LastIndex(call.sigil, Tok(":")) = 0
           \/ Len(SplitOn(SigilBase(call.sigil), Tok("-"))) < 5)
    => call.result = FALSE

\* the rank of the tiers
Rank(t) == CASE t = "TIER3" -> 1 [] t = "TIER2" -> 2 [] t = "TIER1" -> 3

\* C20: for agent and required tiers among TIER1, TIER2, TIER3 the tier
\* check accepts exactly when the agent's rank is at least the required
\* rank, and a tier ranked at or above an accepted tier is accepted too.
C20_TierCheckIsRankOrder ==
    (call.op = "_check_tier") =>
        /\ call.result = (Rank(call.agent_tier) >= Rank(call.required_tier))
        /\ call.result =>
              \A t \in AgentTier :
                 Rank(t) >= Rank(call.agent_tier) => _check_tier(t, call.required_tier)

\* an agent whose tier is exactly the required one is accepted
C20_Witness ==
    /\ call.op = "_check_tier"
    /\ call.agent_tier = "TIER2" /\ call.required_tier = "TIER2"
    /\ call.result = TRUE

\* C21: NeuralMessage.validate returns true exactly when agent id, sigil and
\* directive are non-empty, the sigil has 5 dash-separated segments or more,
\* and the directive is upper-case (it has a letter, and no lower-case one).
C21_EnvelopeValidIff ==
    (call.op = "NeuralMessage.validate") =>
        call.result =
           (/\ call.agent_id \notin {PyNone, EmptyStr}
            /\ call.auth_sigil \notin {PyNone, EmptyStr}
            /\ call.directive # EmptyStr
            /\ Len(SplitOn(call.auth_sigil, Tok("-"))) >= 5
            /\ \A i \in 1..Len(call.directive) : call.directive[i] \notin LowerChars
            /\ \E i \in 1..Len(call.directive) : call.directive[i] \in UpperChars)

\* the sigil of the example script with an upper-case directive is accepted
C21_Witness ==
    /\ call.op = "NeuralMessage.validate"
    /\ call.agent_id = Lit("a1") /\ call.auth_sigil = UnsignedSigil
    /\ call.directive = <<"H", "_">>
    /\ call.result = TRUE

\* C26: DirectiveRegistry.is_valid is true exactly for the names list_all
\* returns, the 13 directives, and false for any other string, the names of
\* the registry's own methods among them.
C26_IsValidExactlyListed ==
    (call.op = "is_valid") =>
        /\ list_all = Directives /\ Cardinality(list_all) = 13
        /\ call.result = (call.directive \in list_all)

C23_InvokeLeavesConnections ==
    [][last'.op = "invoke" =>
         /\ connected_agents' = connected_agents
         /\ websockets' = websockets
         /\ metrics'.active_connections = metrics.active_connections]_vars

\* a request answered 500 while a record and an open socket exist
C23_Witness ==
    /\ last.op = "invoke" /\ last.code = "INTERNAL_ERROR"
    /\ Lit("a1") \in DOMAIN connected_agents
    /\ websockets # {}
    /\ metrics.active_connections = 1

\* C24: a message of a session that has not authenticated is not passed to
\* _route_message, updates no heartbeat and creates no record, unless it is
\* the INITIATE_NEURAL_LINK message by which the session authenticates.
C24_UnauthenticatedHasNoEffect ==
    [][(last'.op = "ws_message" /\ ~Truthy(ws_agent[last'.s])) =>
         IF Truthy(ws_agent'[last'.s])
         THEN last'.directive = "INITIATE_NEURAL_LINK"
         ELSE /\ ~last'.routed
              /\ connected_agents' = connected_agents
              /\ ws_sent'[last'.s] = ws_sent[last'.s]]_vars

\* a HEARTBEAT of a session that has not authenticated, for an agent that has
\* a record: the record keeps its heartbeat and the session goes on
C24_Witness ==
    /\ last.op = "ws_message" /\ last.directive = "HEARTBEAT" /\ last.exc = "none"
    /\ ws_state[last.s] = "open" /\ ~Truthy(ws_agent[last.s])
    /\ Lit("a1") \in DOMAIN connected_agents
    /\ connected_agents[Lit("a1")].last_heartbeat = 0
    /\ utcnow = 2

\* C25: no step lowers messages_processed, messages_failed or auth_failures,
\* and a step that raises one of them raises it by one.
C25_CountersGrowByOne ==
    [][\A c \in {"messages_processed", "messages_failed", "auth_failures"} :
         metrics'[c] \in {metrics[c], metrics[c] + 1}]_vars

\* two faults counted, with the sessions and the table at work in between
C25_Witness ==
    /\ metrics.messages_failed = 2
    /\ metrics.messages_processed = 0 /\ metrics.auth_failures = 0
    /\ last.op = "ws_connect"

\* C27: the gauge of active connections is the number of open sockets, and
\* is not negative.
C27_GaugeCountsSockets ==
    /\ metrics.active_connections = Cardinality(websockets)
    /\ metrics.active_connections >= 0

\* one session open after another one ended on a fault
C27_Witness ==
    /\ metrics.active_connections = 1
    /\ \E s, t \in Sessions : ws_state[s] = "closed" /\ ws_state[t] = "open"
    /\ last.op = "ws_message" /\ last.exc # "none"

Next ==
    \/ \E data \in InvokeBodies : handle_invoke(data)
    \/ \E data \in RegisterBodies : handle_register(data)
    \/ handle_health
    \/ handle_metrics
    \/ handle_discover
    \/ \E s \in Sessions : ws_connect(s)
    \/ \E s \in Sessions, data \in FrameBodies : ws_message(s, "TEXT", data)
    \/ \E s \in Sessions, type \in WsMsgTypes \ {"TEXT"} : ws_message(s, type, NotJson)
    \/ \E s \in Sessions : ws_peer_close(s)

Spec == Init /\ [][Next]_vars

\* the authenticator and the tier check, applied to every input
PureNext ==
    \/ \E prefix \in AgentPrefix, role \in AgentRole, tier \in AgentTier,
          sigil_type \in SigilType, agent_secret \in SuppliedSecrets :
          call_generate_sigil(prefix, role, tier, sigil_type, agent_secret)
    \/ \E sigil \in CallSigils,
          agent_secret \in SecretInputs :
          call_validate_sigil(sigil, agent_secret)
    \/ \E old_sigil \in CallSigils,
          agent_secret \in SecretInputs :
          call_rotate_sigil(old_sigil, agent_secret)
    \/ \E agent_tier \in AgentTier, required_tier \in AgentTier :
          call_check_tier(agent_tier, required_tier)
    \/ \E agent_id \in EnvelopeIds, auth_sigil \in EnvelopeSigils,
          directive \in DirectiveTexts :
          call_message_validate(agent_id, auth_sigil, directive)
    \/ \E directive \in NameInputs : call_is_valid(directive)

SpecPure == Init /\ [][PureNext]_vars

\* the sessions with the arrival of a message and its handling as two steps
OrderNext ==
    \/ \E s \in Sessions : ws_connect(s)
    \/ \E s \in Sessions, data \in ArrivingFrames : ws_arrive(s, "TEXT", data)
    \/ \E s \in Sessions : ws_receive(s)
    \/ \E s \in Sessions : ws_peer_close(s)
    \/ handle_health

SpecOrder == Init /\ [][OrderNext]_vars

====
